---- MODULE Spec2Model ----
(***************************************************************************)
(* A model of pymanopt's manifold geometry layer:                          *)
(*   src/pymanopt/manifolds/product.py  (TangentVector, Product)           *)
(*   src/pymanopt/manifolds/psd.py      (PSDFixedRank, PSDFixedRankComplex,*)
(*                                       Elliptope)                        *)
(* Python objects live in a heap (a sequence of objects, an object's id is *)
(* its index), so that object identity and in-place change can be stated.  *)
(* Floating point values are modelled by exact rationals.                  *)
(***************************************************************************)
EXTENDS Integers, Sequences, FiniteSets, TLC

VARIABLES self, heap, call

vars == <<self, heap, call>>

\* ------------------------------------------------------------------ bounds
\* Longest TangentVector / argument sequence the caller builds.
MaxLen == 2
\* Scalars and tangent-vector components are drawn from -MaxVal..MaxVal.
MaxVal == 1

Vals == (0 - MaxVal)..MaxVal

\* All sequences over S of length at most n.
SeqsUpTo(S, n) == UNION {[1..m -> S] : m \in 0..n}

\* No manifold instance, no call made yet.
None == [none |-> TRUE]

\* A raised Python exception.
Raise(e) == [exc |-> e]

IsExc(r) == "exc" \in DOMAIN r

\* ------------------------------------------------------------ ndarrays
\* A real ndarray of shape (n, k): the matrix num of integers over the common
\* positive denominator den, in lowest terms.

Abs(x) == IF x < 0 THEN 0 - x ELSE x

RECURSIVE Gcd(_, _)
Gcd(a, b) == IF b = 0 THEN a ELSE Gcd(b, a % b)

RECURSIVE SeqSum(_)
SeqSum(s) == IF Len(s) = 0 THEN 0 ELSE s[1] + SeqSum(Tail(s))

RECURSIVE SeqGcd(_)
SeqGcd(s) == IF Len(s) = 0 THEN 0 ELSE Gcd(Abs(s[1]), SeqGcd(Tail(s)))

\* The entries of an n-by-k matrix, row after row.
Flat(n, k, M) == [e \in 1..(n * k) |-> M[((e - 1) \div k) + 1][((e - 1) % k) + 1]]

\* The value v, evaluated once (TLC evaluates a function expression anew at
\* every application until the function has been compared).
Eval(v) == IF v = v THEN v ELSE v

\* The ndarray of M / d in lowest terms (d # 0).
Nd(n, k, M, d) ==
    LET m == Eval(M)
        g == Gcd(Abs(d), SeqGcd(Flat(n, k, m)))
        sg == IF d < 0 THEN 0 - g ELSE g
    IN  Eval([shape |-> <<n, k>>,
              num |-> [i \in 1..n |-> [j \in 1..k |-> m[i][j] \div sg]],
              den |-> d \div sg])

\* An ndarray of integers.
NdInt(n, k, M) == [shape |-> <<n, k>>, num |-> M, den |-> 1]

\* A float in lowest terms, num / den.
Float(a, b) ==
    LET g == Gcd(Abs(b), Abs(a))
        sg == IF b < 0 THEN 0 - g ELSE g
    IN  [num |-> a \div sg, den |-> b \div sg]

\* np.zeros((n, k))
Zeros(n, k) == NdInt(n, k, [i \in 1..n |-> [j \in 1..k |-> 0]])

\* A.T
NdT(A) ==
    Eval([shape |-> <<A.shape[2], A.shape[1]>>,
          num |-> [j \in 1..A.shape[2] |-> [i \in 1..A.shape[1] |-> A.num[i][j]]],
          den |-> A.den])

\* A @ B
NdMatMul(A, B) ==
    Nd(A.shape[1], B.shape[2],
       [i \in 1..A.shape[1] |-> [j \in 1..B.shape[2] |->
           SeqSum([l \in 1..A.shape[2] |-> A.num[i][l] * B.num[l][j]])]],
       A.den * B.den)

\* A + B
NdAdd(A, B) ==
    Nd(A.shape[1], A.shape[2],
       [i \in 1..A.shape[1] |-> [j \in 1..A.shape[2] |->
           A.num[i][j] * B.den + B.num[i][j] * A.den]],
       A.den * B.den)

\* A - B
NdSub(A, B) ==
    Nd(A.shape[1], A.shape[2],
       [i \in 1..A.shape[1] |-> [j \in 1..A.shape[2] |->
           A.num[i][j] * B.den - B.num[i][j] * A.den]],
       A.den * B.den)

\* -A
NdNeg(A) ==
    Eval([shape |-> A.shape,
          num |-> [i \in 1..A.shape[1] |-> [j \in 1..A.shape[2] |-> 0 - A.num[i][j]]],
          den |-> A.den])

\* A / c for an integer c # 0
NdDivInt(A, c) == Nd(A.shape[1], A.shape[2], A.num, A.den * c)

\* A * B, entry by entry
NdMul(A, B) ==
    Nd(A.shape[1], A.shape[2],
       [i \in 1..A.shape[1] |-> [j \in 1..A.shape[2] |-> A.num[i][j] * B.num[i][j]]],
       A.den * B.den)

\* A.sum(axis=1)[:, np.newaxis]: the row sums as a column
RowSums(A) ==
    Nd(A.shape[1], 1,
       [i \in 1..A.shape[1] |-> <<SeqSum(A.num[i])>>],
       A.den)

\* A * col with col of shape (n, 1): broadcasting scales row i by col[i]
NdMulCol(A, col) ==
    Nd(A.shape[1], A.shape[2],
       [i \in 1..A.shape[1] |-> [j \in 1..A.shape[2] |-> A.num[i][j] * col.num[i][1]]],
       A.den * col.den)

\* float(np.tensordot(U, V)): the sum of the entrywise products
Tensordot(U, V) ==
    Float(SeqSum(Flat(U.shape[1], U.shape[2], NdMul(U, V).num)), NdMul(U, V).den)

\* The determinant and trace of a 2-by-2 matrix of integers.
Det2(M) == M[1][1] * M[2][2] - M[1][2] * M[2][1]

Tr2(M) == M[1][1] + M[2][2]

\* The adjugate of a 2-by-2 ndarray.
Adj2(A) ==
    [shape |-> <<2, 2>>,
     num |-> <<<<A.num[2][2], 0 - A.num[1][2]>>, <<0 - A.num[2][1], A.num[1][1]>>>>,
     den |-> A.den]

\* scipy.linalg.solve_continuous_lyapunov(A, Q): the X with A X + X A^T = Q,
\* for A of shape (k, k), k <= 2, whose pairwise eigenvalue sums are non-zero.
\* k = 1: X = Q / 2a.  k = 2: X = (det(A) Q + adj(A) Q adj(A)^T) / (2 tr(A) det(A)).
lyap(A, Q) ==
    CASE A.shape[1] = 0 -> Q
      [] A.shape[1] = 1 ->
            Nd(1, 1, <<<<Q.num[1][1] * A.den>>>>, 2 * A.num[1][1] * Q.den)
      [] A.shape[1] = 2 ->
            LET Over(N) ==
                    Nd(2, 2, [i \in 1..2 |-> [j \in 1..2 |->
                                 N.num[i][j] * A.den * A.den * A.den]],
                       N.den * 2 * Tr2(A.num) * Det2(A.num))
            IN  Over(NdAdd(
                       Nd(2, 2, [i \in 1..2 |-> [j \in 1..2 |-> Det2(A.num) * Q.num[i][j]]],
                          A.den * A.den * Q.den),
                       NdMatMul(NdMatMul(Adj2(A), Q), NdT(Adj2(A)))))

\* Whether lyap(A, .) has its unique solution, for the Gram matrix A = Y.T @ Y.
Solvable(A) ==
    CASE A.shape[1] = 0 -> TRUE
      [] A.shape[1] = 1 -> A.num[1][1] # 0
      [] A.shape[1] = 2 -> Tr2(A.num) # 0 /\ Det2(A.num) # 0

\* ------------------------------------------------------ leaf manifolds
\* int(x) of a float: truncation toward zero.
IntOf(x) ==
    IF x.num < 0 THEN 0 - (Abs(x.num) \div x.den) ELSE x.num \div x.den

\* Manifold.__init__(name, dimension) of the base class: keeps both.
ManifoldInit(obj, name, dimension) ==
    [f \in DOMAIN obj \cup {"name", "dimension"} |->
        CASE f = "name" -> name
          [] f = "dimension" -> dimension
          [] OTHER -> obj[f]]

\* _PSDFixedRank.__init__(n, k, name, dimension)
PSDBaseInit(cls, n, k, name, dimension) ==
    ManifoldInit([cls |-> cls, n |-> n, k |-> k], name, dimension)

\* PSDFixedRank(n, k): dimension = int(k * n - k * (k - 1) / 2)
PSDFixedRank(n, k) ==
    PSDBaseInit("PSDFixedRank", n, k,
                <<"Quotient manifold of psd matrices of rank", n, k>>,
                IntOf(Float(2 * k * n - k * (k - 1), 2)))

\* PSDFixedRankComplex(n, k): dimension = 2 * k * n - k * k
PSDFixedRankComplex(n, k) ==
    PSDBaseInit("PSDFixedRankComplex", n, k,
                <<"Quotient manifold of Hermitian matrices of rank", n, k>>,
                2 * k * n - k * k)

\* Elliptope(n, k): dimension = int(n * (k - 1) - k * (k - 1) / 2)
Elliptope(n, k) ==
    ManifoldInit([cls |-> "Elliptope", n |-> n, k |-> k],
                 <<"Quotient manifold of psd matrices with unit diagonal of rank", n, k>>,
                 IntOf(Float(2 * n * (k - 1) - k * (k - 1), 2)))

\* np.sqrt(x) of a float, kept as the radicand; nan below zero.
Sqrt(x) == IF x.num < 0 THEN [nan |-> TRUE] ELSE [sqrt |-> x]

\* 2 * x, x + y and x ** 2 of floats
FloatTwice(x) == Float(2 * x.num, x.den)

FloatAdd(x, y) == Float(x.num * y.den + y.num * x.den, x.den * y.den)

FloatSquare(x) == Float(x.num * x.num, x.den * x.den)

\* _PSDFixedRank.proj(Y, H) with the transposes exchanged in AS (a sign slip).
PSD_proj_Swapped(Y, H) ==
    LET YtY == NdMatMul(NdT(Y), Y)
        AS == NdSub(NdMatMul(NdT(H), Y), NdMatMul(NdT(Y), H))
        Omega == lyap(YtY, AS)
    IN  NdSub(H, NdMatMul(Y, Omega))

\* _PSDFixedRank.proj(Y, H): the value returned
PSD_proj(Y, H) ==
    LET YtY == NdMatMul(NdT(Y), Y)
        AS == NdSub(NdMatMul(NdT(Y), H), NdMatMul(NdT(H), Y))
        Omega == lyap(YtY, AS)
    IN  NdSub(H, NdMatMul(Y, Omega))

\* Elliptope._project_rows(Y, H)
Ell_project_rows(Y, H) ==
    LET inners == RowSums(NdMul(Y, H))
    IN  NdSub(H, NdMulCol(Y, inners))

\* Elliptope.proj(Y, H)
Ell_proj(Y, H) ==
    LET YtY == NdMatMul(NdT(Y), Y)
        AS(eta) == NdSub(NdMatMul(NdT(Y), eta), NdMatMul(NdT(H), Y))
        Skew(Omega) == NdSub(Omega, NdT(Omega))
        Horizontal(eta) ==
            NdSub(eta, NdDivInt(NdMatMul(Y, Skew(lyap(YtY, NdNeg(AS(eta))))), 2))
    IN  Horizontal(Ell_project_rows(Y, H))

\* The integer square root of a perfect square s.
ISqrt(s) == CHOOSE r \in 0..s : r * r = s

IsSquare(s) == \E r \in 0..s : r * r = s

\* Whether every row of A has a non-zero Euclidean norm that is rational.
RowsNormalizable(A) ==
    \A i \in 1..A.shape[1] :
        LET s == SeqSum([j \in 1..A.shape[2] |-> A.num[i][j] * A.num[i][j]])
        IN  s # 0 /\ IsSquare(s)

\* Elliptope._normalize_rows(Y): Y / la.norm(Y, axis=1)[:, np.newaxis], for
\* rows of rational norm; row i of num / den has norm sqrt(sum num^2) / den.
Ell_normalize_rows(Y) ==
    LET nrm(i) == ISqrt(SeqSum([j \in 1..Y.shape[2] |-> Y.num[i][j] * Y.num[i][j]]))
        all == [i \in 1..Y.shape[1] |-> nrm(i)]
        RECURSIVE Prod(_)
        Prod(q) == IF Len(q) = 0 THEN 1 ELSE q[1] * Prod(Tail(q))
        P == Prod(all)
    IN  Nd(Y.shape[1], Y.shape[2],
           [i \in 1..Y.shape[1] |-> [j \in 1..Y.shape[2] |->
               Y.num[i][j] * (P \div nrm(i))]],
           P)

\* typicaldist of a leaf manifold
PSD_typicaldist(m) == 10 + m.k

Ell_typicaldist(m) == 10 * m.k

\* inner(Y, U, V) of a leaf manifold on real arrays; Y is not read.
PSD_inner(U, V) == Tensordot(U, V)

PSDComplex_inner(U, V) == FloatTwice(Tensordot(U, V))

Ell_inner(U, V) == Tensordot(U, V)


\* ------------------------------------------------------- TangentVector
\* TangentVector([...]): a list subclass instance holding items.
TangentVector(items) == [cls |-> "TangentVector", items |-> items]

\* Methods that class list hands down to TangentVector (no division).
ListMethods ==
    {"__add__", "__mul__", "__rmul__", "__iadd__", "__imul__", "__len__",
     "__getitem__", "__setitem__", "__eq__", "__iter__"}

\* Methods the class body of TangentVector defines.
TangentVectorMethods ==
    {"__add__", "__sub__", "__mul__", "__rmul__", "__div__", "__neg__"}

\* Python 3's method name for a binary operator sign.
DunderOf(sign) ==
    CASE sign = "+" -> "__add__"
      [] sign = "-" -> "__sub__"
      [] sign = "*" -> "__mul__"
      [] sign = "/" -> "__truediv__"

\* A float quotient a / b, kept exact as a fraction.
Quot(a, b) == [num |-> a, den |-> b]

\* TV__add__ without the length assertion: the comprehension runs as far as
\* both operands reach.
TV__add__Unchecked(G, H) ==
    IF Len(G.items) > Len(H.items) THEN Raise("IndexError")
    ELSE TangentVector([k \in 1..Len(G.items) |-> G.items[k] + H.items[k]])

TV__add__(G, H) ==
    IF Len(G.items) # Len(H.items) THEN Raise("AssertionError")
    ELSE TangentVector([k \in 1..Len(G.items) |-> G.items[k] + H.items[k]])

TV__sub__(G, H) ==
    IF Len(G.items) # Len(H.items) THEN Raise("AssertionError")
    ELSE TangentVector([k \in 1..Len(G.items) |-> G.items[k] - H.items[k]])

TV__mul__(G, c) ==
    TangentVector([k \in 1..Len(G.items) |-> c * G.items[k]])

TV__div__(G, c) ==
    TangentVector([k \in 1..Len(G.items) |-> Quot(G.items[k], c)])

TV__neg__(G) ==
    TangentVector([k \in 1..Len(G.items) |-> 0 - G.items[k]])

\* The method a TangentVector runs for the dunder name.
TVMethod(name, G, other) ==
    CASE name = "__add__" -> TV__add__(G, other)
      [] name = "__sub__" -> TV__sub__(G, other)
      [] name = "__mul__" -> TV__mul__(G, other)
      [] name = "__rmul__" -> TV__mul__(G, other)
      [] name = "__div__" -> TV__div__(G, other)

\* G <sign> other with G a TangentVector: Python looks the operator's dunder
\* up on the class; other (a TangentVector or a number) offers no reflected
\* method for a TangentVector, so a missing dunder is a TypeError.
BinaryOp(sign, G, other) ==
    IF DunderOf(sign) \in TangentVectorMethods
    THEN TVMethod(DunderOf(sign), G, other)
    ELSE Raise("TypeError")

\* c * G with c a number: int.__mul__ declines, TangentVector.__rmul__ runs.
ReflectedMul(c, G) ==
    IF "__rmul__" \in TangentVectorMethods
    THEN TVMethod("__rmul__", G, c)
    ELSE Raise("TypeError")

TVs == {TangentVector(s) : s \in SeqsUpTo(Vals, MaxLen)}

InitTV ==
    /\ self = None
    /\ heap = <<>>
    /\ call = None

Add ==
    /\ call = None
    /\ \E G \in TVs, H \in TVs :
        /\ call' = [op |-> "+", args |-> <<G, H>>, result |-> BinaryOp("+", G, H)]
        /\ UNCHANGED <<self, heap>>

Sub ==
    /\ call = None
    /\ \E G \in TVs, H \in TVs :
        /\ call' = [op |-> "-", args |-> <<G, H>>, result |-> BinaryOp("-", G, H)]
        /\ UNCHANGED <<self, heap>>

Mul ==
    /\ call = None
    /\ \E G \in TVs, c \in Vals :
        /\ call' = [op |-> "*", args |-> <<G, c>>, result |-> BinaryOp("*", G, c)]
        /\ UNCHANGED <<self, heap>>

RMul ==
    /\ call = None
    /\ \E G \in TVs, c \in Vals :
        /\ call' = [op |-> "r*", args |-> <<c, G>>, result |-> ReflectedMul(c, G)]
        /\ UNCHANGED <<self, heap>>

Div ==
    /\ call = None
    /\ \E G \in TVs, c \in Vals \ {0} :
        /\ call' = [op |-> "/", args |-> <<G, c>>, result |-> BinaryOp("/", G, c)]
        /\ UNCHANGED <<self, heap>>

Neg ==
    /\ call = None
    /\ \E G \in TVs :
        /\ call' = [op |-> "neg", args |-> <<G>>, result |-> TV__neg__(G)]
        /\ UNCHANGED <<self, heap>>

NextTV == Add \/ Sub \/ Mul \/ RMul \/ Div \/ Neg

SpecTV == InitTV /\ [][NextTV]_vars

\* C1: G + H and G - H return a value exactly when len(G) = len(H); the value
\* is then a TangentVector of that length holding the componentwise sums
\* (differences); with different lengths the assertion fails.
C1_AddSubComponentwise ==
    call # None /\ call.op \in {"+", "-"} =>
        LET G == call.args[1].items
            H == call.args[2].items
            r == call.result
        IN  IF Len(G) = Len(H)
            THEN /\ ~IsExc(r)
                 /\ r.cls = "TangentVector"
                 /\ Len(r.items) = Len(G)
                 /\ \A i \in 1..Len(G) :
                        r.items[i] = IF call.op = "+" THEN G[i] + H[i]
                                                      ELSE G[i] - H[i]
            ELSE r = Raise("AssertionError")

\* C1 witness: a subtraction of two vectors of the longest length with a
\* largest possible first difference has returned.
C1_Witness ==
    /\ call # None
    /\ call.op = "-"
    /\ Len(call.args[1].items) = MaxLen
    /\ Len(call.args[2].items) = MaxLen
    /\ ~IsExc(call.result)
    /\ call.result.items[1] = 2 * MaxVal

\* C2: G / c with c # 0 returns the TangentVector of the quotients G[i] / c.
C2_DivComponentwise ==
    call # None /\ call.op = "/" =>
        LET G == call.args[1].items
            c == call.args[2]
        IN  call.result = TangentVector([i \in 1..Len(G) |-> Quot(G[i], c)])

\* ------------------------------------------- PSDFixedRank.proj on values
\* Largest n of the instances whose projection is exercised.
ProjMaxN == 2

\* Entries the caller gives points and ambient matrices.
PointEntries == {0, 1}

AmbientEntries == {0 - 1, 0, 1}

\* All integer ndarrays of shape (n, k) with entries in S.
NdInts(n, k, S) == {NdInt(n, k, M) : M \in [1..n -> [1..k -> S]]}

\* Points of full column rank: the Gram matrix Y.T @ Y is invertible.
FullRank(Y) == Solvable(NdMatMul(NdT(Y), Y))

InitProj ==
    /\ \E n \in 1..ProjMaxN, k \in 1..2 : k <= n /\ self = PSDFixedRank(n, k)
    /\ heap = <<>>
    /\ call = None

\* U = self.proj(Y, H) for a full-rank point Y and an ambient H.
Proj ==
    /\ call = None
    /\ \E Y \in {y \in NdInts(self.n, self.k, PointEntries) : FullRank(y)},
          H \in NdInts(self.n, self.k, AmbientEntries) :
        /\ call' = [op |-> "proj", args |-> <<Y, H>>, result |-> PSD_proj(Y, H)]
        /\ UNCHANGED <<self, heap>>

\* self.proj(Y, U) of the tangent U the last call returned.
ProjAgain ==
    /\ call # None
    /\ call.op = "proj"
    /\ call' = [op |-> "reproj", args |-> <<call.args[1], call.result>>,
                result |-> PSD_proj(call.args[1], call.result)]
    /\ UNCHANGED <<self, heap>>

NextProj == Proj \/ ProjAgain

SpecProj == InitProj /\ [][NextProj]_vars

\* C10: U = proj(Y, H) is horizontal, Y.T @ U - U.T @ Y = 0, and projecting
\* a projected matrix again returns it unchanged.
C10_ProjHorizontalIdempotent ==
    call # None /\ call.op \in {"proj", "reproj"} =>
        LET Y == call.args[1]
            U == call.result
        IN  /\ NdSub(NdMatMul(NdT(Y), U), NdMatMul(NdT(U), Y)) = Zeros(self.k, self.k)
            /\ call.op = "reproj" => U = call.args[2]

\* C10 witness: a projection with a non-zero vertical part (U differs from
\* H) has been projected again.
C10_Witness ==
    /\ call # None
    /\ call.op = "reproj"
    /\ self.k = 2
    /\ NdSub(NdMatMul(NdT(call.args[1]), call.args[2]),
             NdMatMul(NdT(call.args[2]), call.args[1])) = Zeros(2, 2)
    /\ call.args[2].den > 1

\* ------------------------------------- PSDFixedRankComplex.inner / norm
\* Largest n of the complex instances whose metric is exercised.
InnerMaxN == 2

\* Real and imaginary parts of the entries the caller gives complex tangents.
ComplexParts == {0 - 1, 0, 1}

\* A complex ndarray of shape (n, k): re + 1j * im.
NdComplex(n, k, re, im) == [shape |-> <<n, k>>, re |-> re, im |-> im]

NdComplexes(n, k) ==
    {NdComplex(n, k, re, im) :
        re \in [1..n -> [1..k -> ComplexParts]],
        im \in [1..n -> [1..k -> ComplexParts]]}

\* np.tensordot(U, V).real for complex U, V: the real part of the sum of the
\* products U[i][j] * V[i][j]; nothing is conjugated.
TensordotReal(U, V) ==
    SeqSum(Flat(U.shape[1], U.shape[2],
                [i \in 1..U.shape[1] |-> [j \in 1..U.shape[2] |->
                    U.re[i][j] * V.re[i][j] - U.im[i][j] * V.im[i][j]]]))

\* PSDFixedRankComplex.inner(Y, U, V) on complex arrays
PSDComplex_inner_c(U, V) == Float(2 * TensordotReal(U, V), 1)

\* PSDFixedRankComplex.norm(Y, U)
PSDComplex_norm_c(U) == Sqrt(PSDComplex_inner_c(U, U))

InitInner ==
    /\ \E n \in 1..InnerMaxN : self = PSDFixedRankComplex(n, 1)
    /\ heap = <<>>
    /\ call = None

Inner ==
    /\ call = None
    /\ \E U \in NdComplexes(self.n, self.k), V \in NdComplexes(self.n, self.k) :
        /\ call' = [op |-> "inner", args |-> <<U, V>>,
                    result |-> PSDComplex_inner_c(U, V)]
        /\ UNCHANGED <<self, heap>>

Norm ==
    /\ call = None
    /\ \E U \in NdComplexes(self.n, self.k) :
        /\ call' = [op |-> "norm", args |-> <<U>>, result |-> PSDComplex_norm_c(U)]
        /\ UNCHANGED <<self, heap>>

NextInner == Inner \/ Norm

SpecInner == InitInner /\ [][NextInner]_vars

\* C6: the complex inner product is 2 * Re(trace(U* V)), the doubled real
\* part of the sum of conj(U[i][j]) * V[i][j]; so norm(Y, U) is the square
\* root of a number that is never negative and is zero only for U = 0.
C6_InnerIsHermitian ==
    /\ call # None /\ call.op = "inner" =>
        LET U == call.args[1]
            V == call.args[2]
        IN  call.result =
                Float(2 * SeqSum(Flat(U.shape[1], U.shape[2],
                        [i \in 1..U.shape[1] |-> [j \in 1..U.shape[2] |->
                            U.re[i][j] * V.re[i][j] + U.im[i][j] * V.im[i][j]]])), 1)
    /\ call # None /\ call.op = "norm" =>
        LET U == call.args[1]
            zero == [i \in 1..U.shape[1] |-> [j \in 1..U.shape[2] |-> 0]]
        IN  /\ "sqrt" \in DOMAIN call.result
            /\ call.result.sqrt.num >= 0
            /\ call.result.sqrt.num = 0 <=> (U.re = zero /\ U.im = zero)

\* ------------------------------------------------------------- Product
\* Largest n and k handed to a leaf constructor (0 and k > n included: the
\* constructors take any integers).
MaxN == 2

\* Longest list of manifolds handed to Product.
MaxChildren == 2

LeafClasses == {"PSDFixedRank", "PSDFixedRankComplex", "Elliptope"}

PSDClasses == {"PSDFixedRank", "PSDFixedRankComplex"}

\* Product.__init__(manifolds)
Product(manifolds) ==
    [cls |-> "Product",
     manifolds |-> manifolds,
     nmanifolds |-> Len(manifolds),
     name |-> <<"Product manifold:", [i \in 1..Len(manifolds) |-> manifolds[i].name]>>]

\* Manifold.dim of the base class: the dimension given to __init__.
ManifoldDim(m) == m.dimension

\* Product.dim: np.sum([man.dim for man in self._manifolds])
Product_dim(m) == SeqSum([i \in 1..Len(m.manifolds) |-> ManifoldDim(m.manifolds[i])])

\* m.dim
Dim(m) == IF m.cls = "Product" THEN Product_dim(m) ELSE ManifoldDim(m)

\* typicaldist of a leaf manifold
LeafTypicaldist(m) ==
    IF m.cls \in PSDClasses THEN PSD_typicaldist(m) ELSE Ell_typicaldist(m)

\* Product.typicaldist: np.sqrt(np.sum([man.typicaldist**2 ...]))
Product_typicaldist(m) ==
    Sqrt(Float(SeqSum([i \in 1..Len(m.manifolds) |->
                          LeafTypicaldist(m.manifolds[i]) * LeafTypicaldist(m.manifolds[i])]),
               1))

\* m.typicaldist
Typicaldist(m) ==
    IF m.cls = "Product" THEN Product_typicaldist(m) ELSE LeafTypicaldist(m)

\* The manifolds a caller puts into a Product.
ChildPool == {PSDFixedRank(2, 1), PSDFixedRankComplex(1, 1), Elliptope(2, 2)}

\* ---------------------------------------------------- operators on the heap
\* A method call takes the heap and the ids of its arguments and gives the
\* heap it leaves and what it returns: a reference, a float or an exception.
Ref(id) == [ref |-> id]

IsRef(r) == "ref" \in DOMAIN r

\* A new object: the next free id.
Alloc(h, obj) == [heap |-> Append(h, obj), ret |-> Ref(Len(h) + 1)]

Return(h, r) == [heap |-> h, ret |-> r]

\* _PSDFixedRank.inner / PSDFixedRankComplex.inner
PSDh_inner(m, h, Y, U, V) ==
    Return(h, [float |-> IF m.cls = "PSDFixedRankComplex"
                         THEN PSDComplex_inner(h[U], h[V])
                         ELSE PSD_inner(h[U], h[V])])

\* _PSDFixedRank.norm: la.norm(U, "fro"); PSDFixedRankComplex.norm:
\* np.sqrt(self.inner(Y, U, U))
PSDh_norm(m, h, Y, U) ==
    Return(h, [float |-> IF m.cls = "PSDFixedRankComplex"
                         THEN Sqrt(PSDComplex_inner(h[U], h[U]))
                         ELSE Sqrt(Tensordot(h[U], h[U]))])

\* _PSDFixedRank.proj
PSDh_proj(m, h, Y, H) == Alloc(h, PSD_proj(h[Y], h[H]))

\* _PSDFixedRank.egrad2rgrad: return egrad
PSDh_egrad2rgrad(m, h, Y, egrad) == Return(h, Ref(egrad))

\* _PSDFixedRank.ehess2rhess
PSDh_ehess2rhess(m, h, Y, egrad, ehess, U) == PSDh_proj(m, h, Y, ehess)

\* _PSDFixedRank.retr: return Y + U
PSDh_retr(m, h, Y, U) == Alloc(h, NdAdd(h[Y], h[U]))

\* _PSDFixedRank.transp
PSDh_transp(m, h, Y, Z, U) == PSDh_proj(m, h, Z, U)

\* _PSDFixedRank.zerovec
PSDh_zerovec(m, h, X) == Alloc(h, Zeros(m.n, m.k))

\* Elliptope.inner
Ellh_inner(m, h, Y, U, V) == Return(h, [float |-> Ell_inner(h[U], h[V])])

\* Elliptope.norm
Ellh_norm(m, h, Y, U) == Return(h, [float |-> Sqrt(Ell_inner(h[U], h[U]))])

\* Elliptope.proj
Ellh_proj(m, h, Y, H) == Alloc(h, Ell_proj(h[Y], h[H]))

\* Elliptope.retr
Ellh_retr(m, h, Y, U) == Alloc(h, Ell_normalize_rows(NdAdd(h[Y], h[U])))

\* Elliptope.egrad2rgrad
Ellh_egrad2rgrad(m, h, Y, egrad) == Alloc(h, Ell_project_rows(h[Y], h[egrad]))

\* Elliptope.ehess2rhess: hess is a new array, changed in place by -=, and
\* handed to proj.
Ellh_ehess2rhess(m, h, Y, egrad, ehess, U) ==
    LET scaling_grad == RowSums(NdMul(h[egrad], h[Y]))
        hess == Len(h) + 1
        scaling_hess(h1) ==
            RowSums(NdAdd(NdMul(h1[U], h1[egrad]), NdMul(h1[Y], h1[ehess])))
        Rest(h1) ==
            Ellh_proj(m, [h1 EXCEPT ![hess] = NdSub(@, NdMulCol(h1[Y], scaling_hess(h1)))],
                      Y, hess)
    IN  Rest(Append(h, NdSub(h[ehess], NdMulCol(h[U], scaling_grad))))

\* Elliptope.transp
Ellh_transp(m, h, Y, Z, U) == Ellh_proj(m, h, Z, U)

\* Elliptope.zerovec
Ellh_zerovec(m, h, X) == Alloc(h, Zeros(m.n, m.k))

\* man.<op>(*a) for a leaf manifold man: the method its class defines.
Leaf_inner(m, h, a) ==
    IF m.cls \in PSDClasses THEN PSDh_inner(m, h, a[1], a[2], a[3])
    ELSE Ellh_inner(m, h, a[1], a[2], a[3])

Leaf_norm(m, h, a) ==
    IF m.cls \in PSDClasses THEN PSDh_norm(m, h, a[1], a[2])
    ELSE Ellh_norm(m, h, a[1], a[2])

Leaf_proj(m, h, a) ==
    IF m.cls \in PSDClasses THEN PSDh_proj(m, h, a[1], a[2])
    ELSE Ellh_proj(m, h, a[1], a[2])

Leaf_egrad2rgrad(m, h, a) ==
    IF m.cls \in PSDClasses THEN PSDh_egrad2rgrad(m, h, a[1], a[2])
    ELSE Ellh_egrad2rgrad(m, h, a[1], a[2])

Leaf_ehess2rhess(m, h, a) ==
    IF m.cls \in PSDClasses THEN PSDh_ehess2rhess(m, h, a[1], a[2], a[3], a[4])
    ELSE Ellh_ehess2rhess(m, h, a[1], a[2], a[3], a[4])

Leaf_retr(m, h, a) ==
    IF m.cls \in PSDClasses THEN PSDh_retr(m, h, a[1], a[2])
    ELSE Ellh_retr(m, h, a[1], a[2])

Leaf_transp(m, h, a) ==
    IF m.cls \in PSDClasses THEN PSDh_transp(m, h, a[1], a[2], a[3])
    ELSE Ellh_transp(m, h, a[1], a[2], a[3])

Leaf_zerovec(m, h, a) ==
    IF m.cls \in PSDClasses THEN PSDh_zerovec(m, h, a[1])
    ELSE Ellh_zerovec(m, h, a[1])

\* man.<op>(*a) for a leaf manifold man.
LeafCall(op, m, h, a) ==
    CASE op = "inner" -> Leaf_inner(m, h, a)
      [] op = "norm" -> Leaf_norm(m, h, a)
      [] op = "proj" -> Leaf_proj(m, h, a)
      [] op = "egrad2rgrad" -> Leaf_egrad2rgrad(m, h, a)
      [] op = "ehess2rhess" -> Leaf_ehess2rhess(m, h, a)
      [] op = "retr" -> Leaf_retr(m, h, a)
      [] op = "transp" -> Leaf_transp(m, h, a)
      [] op = "zerovec" -> Leaf_zerovec(m, h, a)

\* [self._manifolds[k].<op>(A[k], B[k], ...) for k in range(first, self._nmanifolds)]
\* for the argument lists a = <<A, B, ...>>: the children's results in order,
\* or the IndexError of the first index a list does not have.
RECURSIVE ProductEach(_, _, _, _, _)
ProductEach(op, m, h, a, k) ==
    IF k > m.nmanifolds THEN [heap |-> h, items |-> <<>>]
    ELSE IF k > Len(m.manifolds) \/ \E i \in 1..Len(a) : k > Len(h[a[i]].items)
    THEN [heap |-> h, exc |-> "IndexError"]
    ELSE LET Cons(r, rest) ==
                 IF IsExc(rest) THEN rest
                 ELSE [heap |-> rest.heap, items |-> <<r.ret>> \o rest.items]
             Then(r) ==
                 IF IsExc(r.ret) THEN [heap |-> h, exc |-> r.ret.exc]
                 ELSE Cons(r, ProductEach(op, m, r.heap, a, k + 1))
         IN  Then(LeafCall(op, m.manifolds[k], h, [i \in 1..Len(a) |-> h[a[i]].items[k]]))

\* The ids behind a sequence of references.
Ids(items) == [i \in 1..Len(items) |-> items[i].ref]

\* A Product method that returns the list of its children's results.
ProductList(op, m, h, a) ==
    LET Listed(r) ==
            IF IsExc(r) THEN Return(h, Raise(r.exc))
            ELSE Alloc(r.heap, [cls |-> "list", items |-> Ids(r.items)])
    IN  Listed(ProductEach(op, m, h, a, 1))

\* A Product method that returns the TangentVector of its children's results.
ProductTangent(op, m, h, a) ==
    LET Wrapped(r) ==
            IF IsExc(r) THEN Return(h, Raise(r.exc))
            ELSE Alloc(r.heap, TangentVector(Ids(r.items)))
    IN  Wrapped(ProductEach(op, m, h, a, 1))

\* np.sum of a list of floats
RECURSIVE FloatSum(_)
FloatSum(items) ==
    IF Len(items) = 0 THEN Float(0, 1)
    ELSE FloatAdd(items[1].float, FloatSum(Tail(items)))

\* Product.inner with the comprehension starting at the second manifold.
Product_inner_SkipFirst(m, h, X, G, H) ==
    LET Summed(r) ==
            IF IsExc(r) THEN Return(h, Raise(r.exc))
            ELSE Return(h, [float |-> FloatSum(r.items)])
    IN  Summed(ProductEach("inner", m, h, <<X, G, H>>, 2))

\* Product.inner
Product_inner(m, h, X, G, H) ==
    LET Summed(r) ==
            IF IsExc(r) THEN Return(h, Raise(r.exc))
            ELSE Return(h, [float |-> FloatSum(r.items)])
    IN  Summed(ProductEach("inner", m, h, <<X, G, H>>, 1))

\* Product.norm: np.sqrt(self.inner(X, G, G))
Product_norm(m, h, X, G) ==
    LET Root(r) ==
            IF IsExc(r.ret) THEN r ELSE Return(h, [float |-> Sqrt(r.ret.float)])
    IN  Root(Product_inner(m, h, X, G, G))

Product_proj(m, h, X, U) == ProductList("proj", m, h, <<X, U>>)

Product_egrad2rgrad(m, h, X, U) == ProductTangent("egrad2rgrad", m, h, <<X, U>>)

\* Product.ehess2rhess: the statement self._manifolds[self._nmanifolds - 1]
\* indexes an empty list with -1 when there is no manifold.
Product_ehess2rhess(m, h, X, egrad, ehess, H) ==
    IF Len(m.manifolds) = 0 THEN Return(h, Raise("IndexError"))
    ELSE ProductTangent("ehess2rhess", m, h, <<X, egrad, ehess, H>>)

Product_retr(m, h, X, U) == ProductList("retr", m, h, <<X, U>>)

Product_transp(m, h, X1, X2, G) == ProductList("transp", m, h, <<X1, X2, G>>)

Product_zerovec(m, h, X) == ProductTangent("zerovec", m, h, <<X>>)

\* self.<op>(*a): the method of self's class.
Self_inner(m, h, a) ==
    IF m.cls = "Product" THEN Product_inner(m, h, a[1], a[2], a[3])
    ELSE Leaf_inner(m, h, a)

Self_norm(m, h, a) ==
    IF m.cls = "Product" THEN Product_norm(m, h, a[1], a[2]) ELSE Leaf_norm(m, h, a)

Self_proj(m, h, a) ==
    IF m.cls = "Product" THEN Product_proj(m, h, a[1], a[2]) ELSE Leaf_proj(m, h, a)

Self_egrad2rgrad(m, h, a) ==
    IF m.cls = "Product" THEN Product_egrad2rgrad(m, h, a[1], a[2])
    ELSE Leaf_egrad2rgrad(m, h, a)

Self_ehess2rhess(m, h, a) ==
    IF m.cls = "Product" THEN Product_ehess2rhess(m, h, a[1], a[2], a[3], a[4])
    ELSE Leaf_ehess2rhess(m, h, a)

Self_retr(m, h, a) ==
    IF m.cls = "Product" THEN Product_retr(m, h, a[1], a[2]) ELSE Leaf_retr(m, h, a)

Self_transp(m, h, a) ==
    IF m.cls = "Product" THEN Product_transp(m, h, a[1], a[2], a[3])
    ELSE Leaf_transp(m, h, a)

Self_zerovec(m, h, a) ==
    IF m.cls = "Product" THEN Product_zerovec(m, h, a[1]) ELSE Leaf_zerovec(m, h, a)

Init ==
    /\ self = None
    /\ heap = <<>>
    /\ call = None

NewPSDFixedRank ==
    /\ self = None
    /\ \E n \in 0..MaxN, k \in 0..MaxN : self' = PSDFixedRank(n, k)
    /\ UNCHANGED <<heap, call>>

NewPSDFixedRankComplex ==
    /\ self = None
    /\ \E n \in 0..MaxN, k \in 0..MaxN : self' = PSDFixedRankComplex(n, k)
    /\ UNCHANGED <<heap, call>>

NewElliptope ==
    /\ self = None
    /\ \E n \in 0..MaxN, k \in 0..MaxN : self' = Elliptope(n, k)
    /\ UNCHANGED <<heap, call>>

NewProduct ==
    /\ self = None
    /\ \E manifolds \in SeqsUpTo(ChildPool, MaxChildren) : self' = Product(manifolds)
    /\ UNCHANGED <<heap, call>>

\* Reading the dim property.
Get_dim ==
    /\ self # None
    /\ call = None
    /\ call' = [op |-> "dim", args |-> <<>>, before |-> heap,
                ret |-> [int |-> Dim(self)], phase |-> "returned"]
    /\ UNCHANGED <<self, heap>>

\* Reading the typicaldist property.
Get_typicaldist ==
    /\ self # None
    /\ call = None
    /\ call' = [op |-> "typicaldist", args |-> <<>>, before |-> heap,
                ret |-> [val |-> Typicaldist(self)], phase |-> "returned"]
    /\ UNCHANGED <<self, heap>>

\* ------------------------------------------------------------ the caller
\* Shapes (n, k) of the leaf instances whose operators the caller invokes.
CallShapes == {<<1, 1>>, <<2, 1>>, <<2, 2>>}

TangentEntries == {0, 1}

\* The points of a leaf manifold the caller uses: full column rank, and unit
\* rows on the Elliptope.
LeafPoints(m) ==
    {y \in NdInts(m.n, m.k, PointEntries) :
        /\ FullRank(y)
        /\ m.cls = "Elliptope" =>
              \A i \in 1..m.n : SeqSum([j \in 1..m.k |-> y.num[i][j] * y.num[i][j]]) = 1}

\* The n-by-k array with c in its first entry and 0 elsewhere.
E11(n, k, c) ==
    NdInt(n, k, [i \in 1..n |-> [j \in 1..k |-> IF i = 1 /\ j = 1 THEN c ELSE 0]])

\* The arrays of one kind the caller hands a leaf manifold.
LeafVals(m, kind) ==
    CASE kind = "point" -> LeafPoints(m)
      [] kind = "tangent" -> NdInts(m.n, m.k, TangentEntries)
      [] kind = "tangent1" -> {E11(m.n, m.k, 1)}

\* The arrays the caller puts at position j of a list given to a Product:
\* of the j-th manifold's shape, and 1-by-1 past the last manifold.
CompVals(m, j, kind) ==
    LET c == IF j <= Len(m.manifolds) THEN m.manifolds[j] ELSE PSDFixedRank(1, 1)
    IN  CASE kind = "point" -> {CHOOSE y \in LeafPoints(c) : y.num[1][1] = 1}
          [] kind = "tangent" -> {E11(c.n, c.k, 1), E11(c.n, c.k, 2)}
          [] kind = "tangent1" -> {E11(c.n, c.k, 1)}

\* All tuples with an element of each set, in order.
RECURSIVE Tuples(_)
Tuples(sets) ==
    IF Len(sets) = 0 THEN {<<>>}
    ELSE {<<x>> \o t : x \in Head(sets), t \in Tuples(Tail(sets))}

\* The lengths of the lists given to a Product: one short, right, one long.
ListLens(m) == {L \in (Len(m.manifolds) - 1)..(Len(m.manifolds) + 1) : L >= 0}

\* The lists of arrays of one kind given to a Product.
ListVals(m, kind) ==
    UNION {Tuples([j \in 1..L |-> CompVals(m, j, kind)]) : L \in ListLens(m)}

\* The heap after the caller has built the lists: each list's arrays, then
\* the list.
RECURSIVE BuildLists(_, _, _)
BuildLists(h, lists, ids) ==
    IF Len(lists) = 0 THEN [heap |-> h, ids |-> ids]
    ELSE LET comps == Head(lists)
             base == Len(h)
             lst == [cls |-> "list", items |-> [j \in 1..Len(comps) |-> base + j]]
         IN  BuildLists(h \o comps \o <<lst>>, Tail(lists),
                        Append(ids, base + Len(comps) + 1))

\* The heaps and argument ids a caller can hand self for arguments of the
\* given kinds.
Args(m, kinds) ==
    IF m.cls = "Product"
    THEN {BuildLists(<<>>, lists, <<>>) :
             lists \in Tuples([i \in 1..Len(kinds) |-> ListVals(m, kinds[i])])}
    ELSE {[heap |-> arrays, ids |-> [i \in 1..Len(kinds) |-> i]] :
             arrays \in Tuples([i \in 1..Len(kinds) |-> LeafVals(m, kinds[i])])}

\* Whether the caller invokes operators on m.
Callable(m) ==
    \/ m.cls = "Product"
    \/ m.cls \in LeafClasses /\ <<m.n, m.k>> \in CallShapes

\* Whether Y + U has rows of rational norm wherever an Elliptope retracts.
Retractable(m, h, a) ==
    IF m.cls = "Product"
    THEN \A j \in 1..Len(m.manifolds) :
            (j <= Len(h[a[1]].items) /\ j <= Len(h[a[2]].items)
               /\ m.manifolds[j].cls = "Elliptope")
            => RowsNormalizable(NdAdd(h[h[a[1]].items[j]], h[h[a[2]].items[j]]))
    ELSE m.cls = "Elliptope" => RowsNormalizable(NdAdd(h[a[1]], h[a[2]]))

\* Whether the caller can invoke an operator now.
CanCall ==
    /\ self # None
    /\ call = None
    /\ Callable(self)

\* The invocation self.<op>(*a.ids), on the arguments a the caller has just
\* built, ends with r: the heap it leaves and what it returns.
Call(op, a, r) ==
    /\ heap' = r.heap
    /\ call' = [op |-> op, args |-> a.ids, before |-> a.heap,
                ret |-> r.ret, phase |-> "returned"]
    /\ UNCHANGED self

Call_inner ==
    /\ CanCall
    /\ \E a \in Args(self, <<"point", "tangent", "tangent">>) :
          Call("inner", a, Self_inner(self, a.heap, a.ids))

Call_norm ==
    /\ CanCall
    /\ \E a \in Args(self, <<"point", "tangent">>) :
          Call("norm", a, Self_norm(self, a.heap, a.ids))

Call_proj ==
    /\ CanCall
    /\ \E a \in Args(self, <<"point", "tangent">>) :
          Call("proj", a, Self_proj(self, a.heap, a.ids))

Call_egrad2rgrad ==
    /\ CanCall
    /\ \E a \in Args(self, <<"point", "tangent">>) :
          Call("egrad2rgrad", a, Self_egrad2rgrad(self, a.heap, a.ids))

\* Call_ehess2rhess with the statement self._manifolds[self._nmanifolds - 1]
\* read as a decrement of the recorded child count.
Call_ehess2rhess_Decrementing ==
    /\ CanCall
    /\ \E a \in Args(self, <<"point", "tangent1", "tangent", "tangent1">>) :
          /\ heap' = Self_ehess2rhess(self, a.heap, a.ids).heap
          /\ call' = [op |-> "ehess2rhess", args |-> a.ids, before |-> a.heap,
                      ret |-> Self_ehess2rhess(self, a.heap, a.ids).ret,
                      phase |-> "returned"]
    /\ self' = IF self.cls = "Product" /\ self.nmanifolds > 0
               THEN [self EXCEPT !.nmanifolds = @ - 1]
               ELSE self

Call_ehess2rhess ==
    /\ CanCall
    /\ \E a \in Args(self, <<"point", "tangent1", "tangent", "tangent1">>) :
          Call("ehess2rhess", a, Self_ehess2rhess(self, a.heap, a.ids))

\* retr is invoked where every Elliptope row of Y + U has a rational norm.
Call_retr ==
    /\ CanCall
    /\ \E a \in Args(self, <<"point", "tangent">>) :
          /\ Retractable(self, a.heap, a.ids)
          /\ Call("retr", a, Self_retr(self, a.heap, a.ids))

Call_transp ==
    /\ CanCall
    /\ \E a \in Args(self, <<"point", "point", "tangent">>) :
          Call("transp", a, Self_transp(self, a.heap, a.ids))

Call_zerovec ==
    /\ CanCall
    /\ \E a \in Args(self, <<"point">>) :
          Call("zerovec", a, Self_zerovec(self, a.heap, a.ids))

\* The array a reference stands for: itself, or the first array of a list.
FirstArray(h, id) ==
    IF "items" \in DOMAIN h[id]
    THEN (IF Len(h[id].items) = 0 THEN 0 ELSE h[id].items[1])
    ELSE id

\* The caller changes the returned value in place: result[0, 0] += 1, or
\* result[0][0, 0] += 1 on a returned list.
CallerMutate ==
    /\ call # None
    /\ call.phase = "returned"
    /\ IsRef(call.ret)
    /\ FirstArray(heap, call.ret.ref) # 0
    /\ LET id == FirstArray(heap, call.ret.ref)
           A == heap[id]
       IN  /\ A.shape[1] >= 1 /\ A.shape[2] >= 1
           /\ heap' = [heap EXCEPT ![id] = NdAdd(A, E11(A.shape[1], A.shape[2], 1))]
    /\ call' = [call EXCEPT !.phase = "mutated"]
    /\ UNCHANGED self

\* The caller lets go of the last call's objects.
CallerDrop ==
    /\ call # None
    /\ call' = None
    /\ heap' = <<>>
    /\ UNCHANGED self

Next ==
    \/ NewPSDFixedRank \/ NewPSDFixedRankComplex \/ NewElliptope \/ NewProduct
    \/ Get_dim \/ Get_typicaldist
    \/ Call_inner \/ Call_norm \/ Call_proj \/ Call_egrad2rgrad
    \/ Call_ehess2rhess \/ Call_retr \/ Call_transp \/ Call_zerovec
    \/ CallerMutate \/ CallerDrop

Spec == Init /\ [][Next]_vars

\* C5: a leaf manifold instance exists only for parameters with
\* 1 <= k <= n (construction fails for every other pair).
C5_ConstructionRejectsInvalid ==
    self # None /\ self.cls \in LeafClasses =>
        self.k <= self.n /\ self.k >= 1 /\ self.n >= 1

\* C7: every leaf instance's dim is non-negative and is exactly
\* k*n - k*(k-1)/2 (PSDFixedRank), 2*k*n - k*k (PSDFixedRankComplex),
\* n*(k-1) - k*(k-1)/2 (Elliptope); stated doubled to stay in the integers.
C7_DimFormulaNonNegative ==
    self # None /\ self.cls \in LeafClasses =>
        /\ Dim(self) >= 0
        /\ 2 * Dim(self) =
              CASE self.cls = "PSDFixedRank" ->
                      2 * self.k * self.n - self.k * (self.k - 1)
                [] self.cls = "PSDFixedRankComplex" ->
                      2 * (2 * self.k * self.n - self.k * self.k)
                [] self.cls = "Elliptope" ->
                      2 * self.n * (self.k - 1) - self.k * (self.k - 1)

\* The operators that take point or tangent sequences.
SequenceOps ==
    {"inner", "norm", "proj", "egrad2rgrad", "ehess2rhess", "retr", "transp", "zerovec"}

\* C3: on a Product, dim is the sum of the children's dim, and inner(X, G, H)
\* on lists of the children's number is the sum over k of the k-th child's
\* inner on X[k], G[k], H[k]: each child once, through its own index.
C3_DimAndInnerAreSums ==
    (self # None /\ self.cls = "Product" /\ call # None) =>
        LET m == Len(self.manifolds)
            list(i) == call.before[call.args[i]].items
            ChildInner(k) ==
                LET c == self.manifolds[k]
                    G == call.before[list(2)[k]]
                    H == call.before[list(3)[k]]
                IN  CASE c.cls = "PSDFixedRank" -> PSD_inner(G, H)
                      [] c.cls = "PSDFixedRankComplex" -> PSDComplex_inner(G, H)
                      [] c.cls = "Elliptope" -> Ell_inner(G, H)
            RECURSIVE Sum(_)
            Sum(k) == IF k = 0 THEN Float(0, 1) ELSE FloatAdd(Sum(k - 1), ChildInner(k))
            RECURSIVE DimSum(_)
            DimSum(k) == IF k = 0 THEN 0 ELSE DimSum(k - 1) + Dim(self.manifolds[k])
        IN  /\ call.op = "dim" => call.ret = [int |-> DimSum(m)]
            /\ (call.op = "inner" /\ \A i \in 1..3 : Len(list(i)) = m) =>
                  call.ret = [float |-> Sum(m)]

\* C3 witness: inner has returned on a Product of two different children
\* whose contributions differ (1 * 2 from the first, 2 * (2 * 1) from the second).
C3_Witness ==
    /\ self = Product(<<PSDFixedRank(2, 1), PSDFixedRankComplex(1, 1)>>)
    /\ call # None
    /\ call.op = "inner"
    /\ \A i \in 1..3 : Len(call.before[call.args[i]].items) = 2
    /\ call.before[call.before[call.args[2]].items[1]] = E11(2, 1, 1)
    /\ call.before[call.before[call.args[3]].items[1]] = E11(2, 1, 2)
    /\ call.before[call.before[call.args[2]].items[2]] = E11(1, 1, 2)
    /\ call.before[call.before[call.args[3]].items[2]] = E11(1, 1, 1)
    /\ call.ret = [float |-> Float(6, 1)]

\* C4: a Product operator given a sequence whose length differs from the
\* number of child manifolds raises an error and returns no result.
C4_LengthMismatchFails ==
    (/\ self # None /\ self.cls = "Product"
     /\ call # None /\ call.op \in SequenceOps
     /\ \E i \in 1..Len(call.args) :
           Len(call.before[call.args[i]].items) # self.nmanifolds)
    => IsExc(call.ret)

\* C8: no step changes the dim or the typicaldist of the instance, and a
\* Product's recorded child count stays the length of its child list.
C8_DimTypicaldistFixed ==
    [][self # None =>
          /\ self' # None
          /\ Dim(self') = Dim(self)
          /\ Typicaldist(self') = Typicaldist(self)
          /\ self'.cls = "Product" => self'.nmanifolds = Len(self'.manifolds)]_vars

\* C8 witness: ehess2rhess has returned on a Product of two manifolds and the
\* caller has changed the result in place; dim is still 2 + 1.
C8_Witness ==
    /\ self # None /\ self.cls = "Product" /\ self.nmanifolds = 2
    /\ call # None /\ call.op = "ehess2rhess" /\ call.phase = "mutated"
    /\ Dim(self) = 3

\* C9: an operator call leaves the objects it was given as they were, and
\* what it returns (and every component of a returned list) is an object
\* that did not exist before the call; so the inputs stay as they were when
\* the caller changes the result in place.
C9_ResultIsFreshInputsKept ==
    (call # None /\ call.op \in SequenceOps) =>
        /\ \A id \in 1..Len(call.before) : heap[id] = call.before[id]
        /\ IsRef(call.ret) =>
              /\ call.ret.ref > Len(call.before)
              /\ "items" \in DOMAIN heap[call.ret.ref] =>
                    \A j \in 1..Len(heap[call.ret.ref].items) :
                        heap[call.ret.ref].items[j] > Len(call.before)

====
